---- MODULE Spec2Model ----
(***************************************************************************)
(* Model of ActivityReport.parse_log (ReportGenerator/report_generator.py):*)
(* the scan of one day's CSV log, row by row, that rebuilds the work/break *)
(* periods, the totals and the per-application usage.                      *)
(*                                                                         *)
(* Rows are records of strings, as csv.DictReader yields them (a missing   *)
(* column, None in Python, is the empty string: the code reads every field *)
(* as `row.get(k) or ''`).  Timestamps are datetimes of the requested date *)
(* and are counted in ticks since midnight, TicksPerSec ticks to a second: *)
(* the times of the log are whole seconds, the wall clock is not.          *)
(***************************************************************************)
EXTENDS Integers, Sequences, FiniteSets, TLC

VARIABLES
    log_exists,             \* log_path.exists()
    pc,                     \* "start", "scan" (inside the for loop), "done",
                            \* "html" (the application list is assembled)
    rows,                   \* the rows the reader has yielded so far
    periods,                \* list of <<start, end, type>>
    first_activity,
    last_activity,
    total_work_seconds,
    app_stats,              \* app_name -> [total, windows: title -> seconds]
    current_session_start,
    in_work_session,
    session_started,
    today,                  \* date.date() == datetime.now().date(), once read
    now,                    \* datetime.now(), once read (None before)
    report,                 \* the returned dict
    previous,               \* what the caller keeps of an earlier call on the
                            \* same object: its inputs and its report
    app_stats_list          \* generate_html_report: the application list

vars == <<log_exists, pc, rows, periods, first_activity, last_activity, total_work_seconds,
          app_stats, current_session_start, in_work_session, session_started,
          today, now, report, previous, app_stats_list>>

----------------------------------------------------------------------------
(* Bounds of the model *)

MaxRows == 4

TicksPerSec == 2

MaxRowsTwice == 2

----------------------------------------------------------------------------
(* Values *)

None == -1

EmptyDict == [x \in {} |-> 0]

Max(a, b) == IF a >= b THEN a ELSE b

\* int(x) of a float x = n / d: truncation toward zero
IntTrunc(n, d) == IF n >= 0 THEN n \div d ELSE -((-n) \div d)

\* int((end - start).total_seconds())
WholeSeconds(start, end) == IntTrunc(end - start, TicksPerSec)

----------------------------------------------------------------------------
(* Parsing of the fields of a row *)

\* datetime.strptime(s, '%H:%M:%S') on the strings of the model; a string
\* outside the table raises ValueError
TimeTable ==
    [s \in {"00:05:00", "09:00:00", "10:00:00", "10:15:00", "17:00:00", "23:58:00"} |->
        CASE s = "00:05:00" -> 300
          [] s = "09:00:00" -> 32400
          [] s = "10:00:00" -> 36000
          [] s = "10:15:00" -> 36900
          [] s = "17:00:00" -> 61200
          [] s = "23:58:00" -> 86280]

TimeParses(s) == s \in DOMAIN TimeTable

\* datetime.combine(date, parsed_time), in ticks since midnight of `date`
Combine(s) == TimeTable[s] * TicksPerSec

\* int(s) on the strings of the model; a string outside the table raises
\* ValueError
IntTable ==
    [s \in {"0", "-5", "600", "1800", "24000", "90000"} |->
        CASE s = "0" -> 0
          [] s = "-5" -> 0 - 5
          [] s = "600" -> 600
          [] s = "1800" -> 1800
          [] s = "24000" -> 24000
          [] s = "90000" -> 90000]

IntParses(s) == s \in DOMAIN IntTable

\* str.strip() on the strings of the model
Strip(s) ==
    CASE s = "  " -> ""
      [] s = " SESSION_START " -> "SESSION_START"
      [] OTHER -> s

\* `x or d`
OrDefault(s, d) == IF s = "" THEN d ELSE s

\* process.startswith('#TOTAL_ACTIVE_SEC')
IsTotalMarker(process) == process \in {"#TOTAL_ACTIVE_SEC", "#TOTAL_ACTIVE_SEC_END"}

\* RemoveExe that keeps the extension
KeepExe(process) == process

\* process.replace('.exe', '')
RemoveExe(process) ==
    CASE process = "editor.exe" -> "editor"
      [] process = "browser.exe" -> "browser"
      [] process = "task.executor" -> "taskcutor"
      [] OTHER -> process

----------------------------------------------------------------------------
(* The local variables of parse_log, as one record *)

Locals ==
    [periods |-> periods,
     first_activity |-> first_activity,
     last_activity |-> last_activity,
     total_work_seconds |-> total_work_seconds,
     app_stats |-> app_stats,
     current_session_start |-> current_session_start,
     in_work_session |-> in_work_session,
     session_started |-> session_started]

\* lines 50-58: the locals before the first row
InitLocals ==
    [periods |-> <<>>,
     first_activity |-> None,
     last_activity |-> None,
     total_work_seconds |-> 0,
     app_stats |-> EmptyDict,
     current_session_start |-> None,
     in_work_session |-> FALSE,
     session_started |-> FALSE]

----------------------------------------------------------------------------
(* The branches of the loop body, each as a function of the locals *)

\* Branch without the skip of the rows before the first SESSION_START
BranchNoDiscard(s, row) ==
    LET start_str == Strip(OrDefault(row.start, ""))
        process == Strip(OrDefault(row.process, ""))
    IN  IF start_str = "" THEN "skip"
        ELSE IF ~TimeParses(start_str) THEN "skip"
        ELSE IF process = "SESSION_START" THEN "session_start"
        ELSE IF process = "BREAK_START" THEN "break_start"
        ELSE IF process = "SESSION_END" THEN "session_end"
        ELSE IF IsTotalMarker(process) THEN "total"
        ELSE "activity"

\* the branch of the loop body a row takes
Branch(s, row) ==
    LET start_str == Strip(OrDefault(row.start, ""))
        process == Strip(OrDefault(row.process, ""))
    IN  IF start_str = "" THEN "skip"
        ELSE IF ~TimeParses(start_str) THEN "skip"
        ELSE IF ~s.session_started /\ process # "SESSION_START" THEN "discard"
        ELSE IF process = "SESSION_START" THEN "session_start"
        ELSE IF process = "BREAK_START" THEN "break_start"
        ELSE IF process = "SESSION_END" THEN "session_end"
        ELSE IF IsTotalMarker(process) THEN "total"
        ELSE "activity"

\* SessionStartBranch that does not take the marker as the last activity
SessionStartNoStamp(s, session_dt) ==
    [s EXCEPT
        !.session_started = TRUE,
        !.periods =
            IF s.current_session_start # None
            THEN Append(s.periods,
                        <<s.current_session_start, session_dt,
                          IF s.in_work_session THEN "work" ELSE "break">>)
            ELSE s.periods,
        !.current_session_start = session_dt,
        !.in_work_session = TRUE,
        !.first_activity = IF s.first_activity = None THEN session_dt
                           ELSE s.first_activity]

\* SessionStartBranch that closes every open interval as work
SessionStartClosesWork(s, session_dt) ==
    [s EXCEPT
        !.session_started = TRUE,
        !.periods =
            IF s.current_session_start # None
            THEN Append(s.periods, <<s.current_session_start, session_dt, "work">>)
            ELSE s.periods,
        !.current_session_start = session_dt,
        !.in_work_session = TRUE,
        !.first_activity = IF s.first_activity = None THEN session_dt
                           ELSE s.first_activity,
        !.last_activity = session_dt]

\* SessionStartBranch that sets first_activity at every SESSION_START
SessionStartResetsFirst(s, session_dt) ==
    [s EXCEPT
        !.session_started = TRUE,
        !.periods =
            IF s.current_session_start # None
            THEN Append(s.periods,
                        <<s.current_session_start, session_dt,
                          IF s.in_work_session THEN "work" ELSE "break">>)
            ELSE s.periods,
        !.current_session_start = session_dt,
        !.in_work_session = TRUE,
        !.first_activity = session_dt,
        !.last_activity = session_dt]

\* process == 'SESSION_START'
SessionStartBranch(s, session_dt) ==
    [s EXCEPT
        !.session_started = TRUE,
        !.periods =
            IF s.current_session_start # None
            THEN Append(s.periods,
                        <<s.current_session_start, session_dt,
                          IF s.in_work_session THEN "work" ELSE "break">>)
            ELSE s.periods,
        !.current_session_start = session_dt,
        !.in_work_session = TRUE,
        !.first_activity = IF s.first_activity = None THEN session_dt
                           ELSE s.first_activity,
        !.last_activity = session_dt]

\* BreakStartBranch that does not take the marker as the last activity
BreakStartNoStamp(s, break_dt) ==
    [s EXCEPT
        !.periods =
            IF s.current_session_start # None /\ s.in_work_session
            THEN Append(s.periods, <<s.current_session_start, break_dt, "work">>)
            ELSE s.periods,
        !.current_session_start = break_dt,
        !.in_work_session = FALSE]

\* BreakStartBranch that leaves in_work_session set
BreakStartStaysWorking(s, break_dt) ==
    [s EXCEPT
        !.periods =
            IF s.current_session_start # None /\ s.in_work_session
            THEN Append(s.periods, <<s.current_session_start, break_dt, "work">>)
            ELSE s.periods,
        !.current_session_start = break_dt,
        !.last_activity = break_dt]

\* BreakStartBranch that closes an open break too
BreakStartClosesBreak(s, break_dt) ==
    [s EXCEPT
        !.periods =
            IF s.current_session_start # None
            THEN Append(s.periods,
                        <<s.current_session_start, break_dt,
                          IF s.in_work_session THEN "work" ELSE "break">>)
            ELSE s.periods,
        !.current_session_start = break_dt,
        !.in_work_session = FALSE,
        !.last_activity = break_dt]

\* BreakStartBranch that closes the work period but keeps its start as the
\* start of the break
BreakStartKeepsStart(s, break_dt) ==
    [s EXCEPT
        !.periods =
            IF s.current_session_start # None /\ s.in_work_session
            THEN Append(s.periods, <<s.current_session_start, break_dt, "work">>)
            ELSE s.periods,
        !.current_session_start =
            IF s.current_session_start # None /\ s.in_work_session
            THEN s.current_session_start ELSE break_dt,
        !.in_work_session = FALSE,
        !.last_activity = break_dt]

\* process == 'BREAK_START'
BreakStartBranch(s, break_dt) ==
    [s EXCEPT
        !.periods =
            IF s.current_session_start # None /\ s.in_work_session
            THEN Append(s.periods, <<s.current_session_start, break_dt, "work">>)
            ELSE s.periods,
        !.current_session_start = break_dt,
        !.in_work_session = FALSE,
        !.last_activity = break_dt]

\* SessionEndBranch that, with no work interval to close, moves the end of
\* the last period to the marker
SessionEndExtendsLast(s, end_dt) ==
    [s EXCEPT
        !.periods =
            IF s.current_session_start # None /\ s.in_work_session
            THEN Append(s.periods, <<s.current_session_start, end_dt, "work">>)
            ELSE IF s.periods # <<>>
            THEN [s.periods EXCEPT ![Len(s.periods)][2] = end_dt]
            ELSE s.periods,
        !.current_session_start = None,
        !.in_work_session = FALSE,
        !.last_activity = end_dt]

\* SessionEndBranch that does not take the marker as the last activity
SessionEndNoStamp(s, end_dt) ==
    [s EXCEPT
        !.periods =
            IF s.current_session_start # None /\ s.in_work_session
            THEN Append(s.periods, <<s.current_session_start, end_dt, "work">>)
            ELSE s.periods,
        !.current_session_start = None,
        !.in_work_session = FALSE]

\* SessionEndBranch that leaves in_work_session set
SessionEndStaysWorking(s, end_dt) ==
    [s EXCEPT
        !.periods =
            IF s.current_session_start # None /\ s.in_work_session
            THEN Append(s.periods, <<s.current_session_start, end_dt, "work">>)
            ELSE s.periods,
        !.current_session_start = None,
        !.last_activity = end_dt]

\* SessionEndBranch that closes an open break as a period
SessionEndClosesBreak(s, end_dt) ==
    [s EXCEPT
        !.periods =
            IF s.current_session_start # None
            THEN Append(s.periods,
                        <<s.current_session_start, end_dt,
                          IF s.in_work_session THEN "work" ELSE "break">>)
            ELSE s.periods,
        !.current_session_start = None,
        !.in_work_session = FALSE,
        !.last_activity = end_dt]

\* process == 'SESSION_END'
SessionEndBranch(s, end_dt) ==
    [s EXCEPT
        !.periods =
            IF s.current_session_start # None /\ s.in_work_session
            THEN Append(s.periods, <<s.current_session_start, end_dt, "work">>)
            ELSE s.periods,
        !.current_session_start = None,
        !.in_work_session = FALSE,
        !.last_activity = end_dt]

\* TotalBranch that keeps an earlier non-zero total
TotalKeepsFirst(s, row) ==
    LET end_value == Strip(OrDefault(row.end, "0"))
    IN  IF IntParses(end_value) /\ s.total_work_seconds = 0
        THEN [s EXCEPT !.total_work_seconds = IntTable[end_value]]
        ELSE s

\* TotalBranch that takes the summary row as the last activity
TotalStampsLast(s, row) ==
    LET end_value == Strip(OrDefault(row.end, "0"))
        stamped == [s EXCEPT !.last_activity = Combine(Strip(row.start))]
    IN  IF IntParses(end_value)
        THEN [stamped EXCEPT !.total_work_seconds = IntTable[end_value]]
        ELSE stamped

\* process.startswith('#TOTAL_ACTIVE_SEC')
TotalBranch(s, row) ==
    LET end_value == Strip(OrDefault(row.end, "0"))
    IN  IF IntParses(end_value)
        THEN [s EXCEPT !.total_work_seconds = IntTable[end_value]]
        ELSE s

\* lines 158-166: one sample added to the statistics
\* AddUsage that books the time of a row without a title under the empty
\* title
AddUsageKeepsEmptyTitle(stats, app_name, title, duration) ==
    LET old == IF app_name \in DOMAIN stats THEN stats[app_name]
               ELSE [total |-> 0, windows |-> EmptyDict]
        oldw == IF title \in DOMAIN old.windows THEN old.windows[title] ELSE 0
        windows == [t \in DOMAIN old.windows \cup {title} |->
                        IF t = title THEN oldw + duration ELSE old.windows[t]]
        new == [total |-> old.total + duration, windows |-> windows]
    IN  [a \in DOMAIN stats \cup {app_name} |->
            IF a = app_name THEN new ELSE stats[a]]

AddUsage(stats, app_name, title, duration) ==
    LET old == IF app_name \in DOMAIN stats THEN stats[app_name]
               ELSE [total |-> 0, windows |-> EmptyDict]
        oldw == IF title \in DOMAIN old.windows THEN old.windows[title] ELSE 0
        windows == IF title # ""
                   THEN [t \in DOMAIN old.windows \cup {title} |->
                            IF t = title THEN oldw + duration ELSE old.windows[t]]
                   ELSE old.windows
        new == [total |-> old.total + duration, windows |-> windows]
    IN  [a \in DOMAIN stats \cup {app_name} |->
            IF a = app_name THEN new ELSE stats[a]]

\* ActivityBranch that counts every sample of duration >= 0
ActivityCountsZero(s, row, start_dt) ==
    LET process == Strip(OrDefault(row.process, ""))
        duration_str == Strip(OrDefault(row.duration_sec, "0"))
        duration == IntTable[duration_str]
        title == Strip(OrDefault(row.title, ""))
    IN  IF ~IntParses(duration_str) THEN s
        ELSE [s EXCEPT
                !.app_stats =
                    IF s.session_started /\ duration >= 0
                    THEN AddUsage(s.app_stats, RemoveExe(process), title, duration)
                    ELSE s.app_stats,
                !.first_activity = IF s.first_activity = None THEN start_dt
                                   ELSE s.first_activity,
                !.last_activity = start_dt]

\* ActivityBranch that stamps the activity before it parses the duration
ActivityStampsUnparsed(s, row, start_dt) ==
    LET process == Strip(OrDefault(row.process, ""))
        duration_str == Strip(OrDefault(row.duration_sec, "0"))
        duration == IntTable[duration_str]
        title == Strip(OrDefault(row.title, ""))
        stamped == [s EXCEPT
                      !.first_activity = IF s.first_activity = None THEN start_dt
                                         ELSE s.first_activity,
                      !.last_activity = start_dt]
    IN  IF ~IntParses(duration_str) THEN stamped
        ELSE [stamped EXCEPT
                !.app_stats =
                    IF s.session_started /\ duration > 0
                    THEN AddUsage(s.app_stats, RemoveExe(process), title, duration)
                    ELSE s.app_stats]

\* ActivityBranch that takes a sample as the end of a break
ActivityResumesWork(s, row, start_dt) ==
    LET process == Strip(OrDefault(row.process, ""))
        duration_str == Strip(OrDefault(row.duration_sec, "0"))
        duration == IntTable[duration_str]
        title == Strip(OrDefault(row.title, ""))
    IN  IF ~IntParses(duration_str) THEN s
        ELSE [s EXCEPT
                !.app_stats =
                    IF s.session_started /\ duration > 0
                    THEN AddUsage(s.app_stats, RemoveExe(process), title, duration)
                    ELSE s.app_stats,
                !.in_work_session = s.current_session_start # None,
                !.first_activity = IF s.first_activity = None THEN start_dt
                                   ELSE s.first_activity,
                !.last_activity = start_dt]

\* the else branch: a regular activity entry
ActivityBranch(s, row, start_dt) ==
    LET process == Strip(OrDefault(row.process, ""))
        duration_str == Strip(OrDefault(row.duration_sec, "0"))
        duration == IntTable[duration_str]
        title == Strip(OrDefault(row.title, ""))
    IN  IF ~IntParses(duration_str) THEN s
        ELSE [s EXCEPT
                !.app_stats =
                    IF s.session_started /\ duration > 0
                    THEN AddUsage(s.app_stats, RemoveExe(process), title, duration)
                    ELSE s.app_stats,
                !.first_activity = IF s.first_activity = None THEN start_dt
                                   ELSE s.first_activity,
                !.last_activity = start_dt]

\* one pass of the loop body
ProcessRow(s, row) ==
    LET b == Branch(s, row)
        dt == Combine(Strip(OrDefault(row.start, "")))
    IN  CASE b = "session_start" -> SessionStartBranch(s, dt)
          [] b = "break_start" -> BreakStartBranch(s, dt)
          [] b = "session_end" -> SessionEndBranch(s, dt)
          [] b = "total" -> TotalBranch(s, row)
          [] b = "activity" -> ActivityBranch(s, row, dt)
          [] OTHER -> s

----------------------------------------------------------------------------
(* After the loop: lines 175-214 *)

\* time(23, 59, 59) of the requested date
EndOfDay == 86399 * TicksPerSec

\* CloseOpenSession that closes a past day at 23:59:59
CloseAtEndOfDay(s, is_today, clock) ==
    LET end_of_day == IF is_today THEN clock ELSE EndOfDay
    IN  IF s.current_session_start # None
        THEN Append(s.periods,
                    <<s.current_session_start, end_of_day,
                      IF s.in_work_session THEN "work" ELSE "break">>)
        ELSE s.periods

\* lines 176-186: close any open session at end of file
CloseOpenSession(s, is_today, clock) ==
    LET fallback == IF s.last_activity # None THEN s.last_activity ELSE EndOfDay
        end_of_day == IF is_today THEN clock ELSE fallback
    IN  IF s.current_session_start # None
        THEN Append(s.periods,
                    <<s.current_session_start, end_of_day,
                      IF s.in_work_session THEN "work" ELSE "break">>)
        ELSE s.periods

\* the loop of lines 190-192 over periods[i..]
RECURSIVE SumWork(_, _)
SumWork(ps, i) ==
    IF i > Len(ps) THEN 0
    ELSE (IF ps[i][3] = "work" THEN WholeSeconds(ps[i][1], ps[i][2]) ELSE 0)
         + SumWork(ps, i + 1)

\* TotalWork that adds up the periods of both types
RECURSIVE SumAll(_, _)
SumAll(ps, i) ==
    IF i > Len(ps) THEN 0
    ELSE WholeSeconds(ps[i][1], ps[i][2]) + SumAll(ps, i + 1)

TotalWorkAllPeriods(total, ps) ==
    IF total = 0 /\ ps # <<>> THEN SumAll(ps, 1) ELSE total

\* lines 189-192
TotalWork(total, ps) ==
    IF total = 0 /\ ps # <<>> THEN SumWork(ps, 1) ELSE total

\* lines 198-199: last_activity as returned
ClampLast(last, is_today, clock) ==
    IF is_today THEN Max(last, clock) ELSE last

\* TotalBreak without the max(0, ...)
TotalBreakUnclamped(first, last, work, is_today, clock) ==
    IF first # None /\ last # None
    THEN IntTrunc((ClampLast(last, is_today, clock) - first)
                     - work * TicksPerSec, TicksPerSec)
    ELSE 0

\* lines 195-202
TotalBreak(first, last, work, is_today, clock) ==
    IF first # None /\ last # None
    THEN Max(0, IntTrunc((ClampLast(last, is_today, clock) - first)
                            - work * TicksPerSec, TicksPerSec))
    ELSE 0

\* MissingReport without the error text
MissingReportNoError ==
    [exists |-> FALSE,
     start_time |-> None,
     end_time |-> None,
     total_work_seconds |-> 0,
     total_break_seconds |-> 0,
     periods |-> <<>>,
     error |-> ""]

\* lines 39-48
MissingReport ==
    [exists |-> FALSE,
     start_time |-> None,
     end_time |-> None,
     total_work_seconds |-> 0,
     total_break_seconds |-> 0,
     periods |-> <<>>,
     error |-> "No log file found"]

\* lines 175-214: the dict returned for the locals s at the end of the file
FinalReport(s, is_today, clock) ==
    LET ps == CloseOpenSession(s, is_today, clock)
        work == TotalWork(s.total_work_seconds, ps)
        both == s.first_activity # None /\ s.last_activity # None
    IN  [exists |-> TRUE,
         start_time |-> s.first_activity,
         end_time |-> IF both THEN ClampLast(s.last_activity, is_today, clock)
                      ELSE s.last_activity,
         total_work_seconds |-> work,
         total_break_seconds |->
            TotalBreak(s.first_activity, s.last_activity, work, is_today, clock),
         periods |-> ps,
         app_stats |-> s.app_stats,
         error |-> ""]

\* the whole scan of a file: the loop over its rows from row i on
RECURSIVE ScanRows(_, _, _)
ScanRows(s, rs, i) ==
    IF i > Len(rs) THEN s ELSE ScanRows(ProcessRow(s, rs[i]), rs, i + 1)

\* parse_log on an existing file with rows rs
ParseLog(rs, is_today, clock) == FinalReport(ScanRows(InitLocals, rs, 1), is_today, clock)

----------------------------------------------------------------------------
(* The state machine *)

NoReport == [pending |-> TRUE]

Init ==
    /\ log_exists \in BOOLEAN
    /\ pc = "start"
    /\ rows = <<>>
    /\ periods = InitLocals.periods
    /\ first_activity = InitLocals.first_activity
    /\ last_activity = InitLocals.last_activity
    /\ total_work_seconds = InitLocals.total_work_seconds
    /\ app_stats = InitLocals.app_stats
    /\ current_session_start = InitLocals.current_session_start
    /\ in_work_session = InitLocals.in_work_session
    /\ session_started = InitLocals.session_started
    /\ today = FALSE
    /\ now = None
    /\ report = NoReport
    /\ previous = <<>>
    /\ app_stats_list = <<>>

\* the locals take the values of the record s
Assign(s) ==
    /\ periods' = s.periods
    /\ first_activity' = s.first_activity
    /\ last_activity' = s.last_activity
    /\ total_work_seconds' = s.total_work_seconds
    /\ app_stats' = s.app_stats
    /\ current_session_start' = s.current_session_start
    /\ in_work_session' = s.in_work_session
    /\ session_started' = s.session_started

\* lines 38-48: no log file for the date
MissingFile ==
    /\ pc = "start"
    /\ ~log_exists
    /\ pc' = "done"
    /\ report' = MissingReport
    /\ UNCHANGED <<log_exists, rows, periods, first_activity, last_activity,
                   total_work_seconds, app_stats, current_session_start,
                   in_work_session, session_started, today, now, previous,
                   app_stats_list>>

\* OpenLog that starts from the application usage of the call before
OpenLogKeepsUsage ==
    /\ pc = "start"
    /\ log_exists
    /\ pc' = "scan"
    /\ Assign([InitLocals EXCEPT !.app_stats = app_stats])
    /\ UNCHANGED <<log_exists, rows, today, now, report, previous, app_stats_list>>

\* lines 50-61: the file exists and is opened
OpenLog ==
    /\ pc = "start"
    /\ log_exists
    /\ pc' = "scan"
    /\ Assign(InitLocals)
    /\ UNCHANGED <<log_exists, rows, today, now, report, previous, app_stats_list>>

\* the reader yields row and the loop body takes branch b
ReadRow(row, b) ==
    /\ pc = "scan"
    /\ Branch(Locals, row) = b
    /\ rows' = Append(rows, row)
    /\ UNCHANGED <<log_exists, pc, today, now, report, previous, app_stats_list>>

\* lines 64-77: empty row, empty or unparseable start
SkipRow(row) ==
    /\ ReadRow(row, "skip")
    /\ Assign(Locals)

\* lines 81-82: a row before the first SESSION_START
DiscardRow(row) ==
    /\ ReadRow(row, "discard")
    /\ Assign(Locals)

\* lines 85-104
SessionStart(row) ==
    /\ ReadRow(row, "session_start")
    /\ Assign(SessionStartBranch(Locals, Combine(Strip(row.start))))

\* lines 106-120
BreakStart(row) ==
    /\ ReadRow(row, "break_start")
    /\ Assign(BreakStartBranch(Locals, Combine(Strip(row.start))))

\* lines 122-134
SessionEnd(row) ==
    /\ ReadRow(row, "session_end")
    /\ Assign(SessionEndBranch(Locals, Combine(Strip(row.start))))

\* lines 136-142
TotalMarker(row) ==
    /\ ReadRow(row, "total")
    /\ Assign(TotalBranch(Locals, row))

\* lines 144-173
Activity(row) ==
    /\ ReadRow(row, "activity")
    /\ Assign(ActivityBranch(Locals, row, Combine(Strip(row.start))))

\* lines 175-214: the reader is exhausted; is_today and clock are what the
\* wall clock gives, its reads of lines 179-199 taken as one instant (clock is
\* None when the date is not today: it is not used)
Finalize(is_today, clock) ==
    /\ pc = "scan"
    /\ pc' = "done"
    /\ today' = is_today
    /\ now' = clock
    /\ LET r == FinalReport(Locals, is_today, clock)
       IN  /\ report' = r
           /\ periods' = r.periods
           /\ total_work_seconds' = r.total_work_seconds
           /\ last_activity' = r.end_time
    /\ UNCHANGED <<log_exists, rows, first_activity, app_stats, current_session_start,
                   in_work_session, session_started, previous, app_stats_list>>

\* line 34: parse_log is called a second time on the same object; the caller
\* keeps the first report, and nothing of the first call is reset here
SecondCall ==
    /\ pc = "done"
    /\ previous = <<>>
    /\ previous' = <<[log_exists |-> log_exists, rows |-> rows, today |-> today,
                      now |-> now, report |-> report]>>
    /\ log_exists' \in BOOLEAN
    /\ pc' = "start"
    /\ rows' = <<>>
    /\ today' = FALSE
    /\ now' = None
    /\ report' = NoReport
    /\ UNCHANGED <<periods, first_activity, last_activity, total_work_seconds,
                   app_stats, current_session_start, in_work_session,
                   session_started, app_stats_list>>

----------------------------------------------------------------------------
(* Inputs: the rows a log file is made of, and the wall clock *)

Row(start, process, end, duration_sec, title) ==
    [start |-> start, process |-> process, end |-> end,
     duration_sec |-> duration_sec, title |-> title]

Marker(process, start) == Row(start, process, "", "", "")

Total(start, end) == Row(start, "#TOTAL_ACTIVE_SEC", end, "", "")

Sample(start, process, duration_sec, title) ==
    Row(start, process, "", duration_sec, title)

\* values of datetime.now() on the requested date: 09:59:59.5 and 17:00:00.5
NowValues == {Combine("10:00:00") - 1, Combine("17:00:00") + 1}

\* the rows the reader may yield next: any row of R, while fewer than limit
\* rows were read
Input(R, limit) == IF Len(rows) < limit THEN R ELSE {}

\* one step of parse_log on a file made of rows of R, at most limit of them
NextOver(R, limit) ==
    \/ MissingFile
    \/ OpenLog
    \/ \E row \in Input(R, limit) : SkipRow(row)
    \/ \E row \in Input(R, limit) : DiscardRow(row)
    \/ \E row \in Input(R, limit) : SessionStart(row)
    \/ \E row \in Input(R, limit) : BreakStart(row)
    \/ \E row \in Input(R, limit) : SessionEnd(row)
    \/ \E row \in Input(R, limit) : TotalMarker(row)
    \/ \E row \in Input(R, limit) : Activity(row)
    \/ Finalize(FALSE, None)
    \/ \E clock \in NowValues : Finalize(TRUE, clock)

\* Logs of markers at 00:05 and 10:00 in any order, with a leftover sample of
\* the day before, a summary row and rows without a usable start
TimelineRows ==
    {Marker(p, t) : p \in {"SESSION_START", "BREAK_START", "SESSION_END"},
                    t \in {"00:05:00", "10:00:00"}}
    \cup {Sample("23:58:00", "editor.exe", "1800", "doc"),
          Total("10:00:00", "24000"),
          Marker("SESSION_START", "9 am"),
          Marker("BREAK_START", "")}

Next == NextOver(TimelineRows, MaxRows)

Spec == Init /\ [][Next]_vars

\* Logs of one working day with summary rows of several values, one of them
\* without a start
TotalRows ==
    {Marker("SESSION_START", "09:00:00"), Marker("BREAK_START", "10:00:00"),
     Marker("SESSION_START", "10:15:00"), Marker("SESSION_END", "17:00:00"),
     Sample("09:00:00", "editor.exe", "1800", "doc"),
     Total("", "600")}
    \cup {Total("17:00:00", v) : v \in {"24000", "0", "-5", "x", ""}}

NextTotal == NextOver(TotalRows, MaxRows)

SpecTotal == Init /\ [][NextTotal]_vars

\* Logs of samples of three applications, with durations that are positive,
\* zero, negative and not a number, and rows without a usable start
UsageRows ==
    {Marker("SESSION_START", "09:00:00"), Marker("BREAK_START", "10:00:00"),
     Marker("SESSION_END", "17:00:00"), Total("17:00:00", "24000"),
     Marker("SESSION_START", "9 am"),
     Sample("", "editor.exe", "1800", "doc"),
     Sample("10:00:00", "task.executor", "600", "run"),
     Sample("09:00:00", "editor.exe", "1800", "doc"),
     Sample("09:00:00", "editor", "600", ""),
     Sample("10:00:00", "editor.exe", "0", "doc"),
     Sample("10:00:00", "browser.exe", "-5", "mail"),
     Sample("10:00:00", "browser.exe", "x", "mail"),
     Sample("10:00:00", "browser.exe", "600", "mail")}

NextUsage == NextOver(UsageRows, MaxRows)

SpecUsage == Init /\ [][NextUsage]_vars

\* The log of the end-to-end scenario; the sample and the summary row carry
\* the time of the marker before them
EndToEndRows ==
    <<Marker("SESSION_START", "09:00:00"),
      Sample("09:00:00", "editor.exe", "1800", "doc"),
      Marker("BREAK_START", "10:00:00"),
      Marker("SESSION_START", "10:15:00"),
      Marker("SESSION_END", "17:00:00"),
      Total("17:00:00", "24000")>>

\* Logs as long as the scenario, of its rows in any order and a row without
\* a start
ScenarioRows ==
    {EndToEndRows[i] : i \in 1..Len(EndToEndRows)} \cup {Marker("BREAK_START", "")}

NextScenario == NextOver(ScenarioRows, Len(EndToEndRows))

SpecScenario == Init /\ [][NextScenario]_vars

\* Two calls of parse_log in a row, each on a short log with a row of every
\* kind
TwiceRows ==
    {Marker("SESSION_START", "09:00:00"), Marker("BREAK_START", "10:00:00"),
     Marker("SESSION_END", "17:00:00"), Total("17:00:00", "24000"),
     Sample("09:00:00", "editor.exe", "1800", "doc"),
     Marker("SESSION_START", "9 am")}

NextTwice == NextOver(TwiceRows, MaxRowsTwice) \/ SecondCall

SpecTwice == Init /\ [][NextTwice]_vars

----------------------------------------------------------------------------
(* generate_html_report, lines 238-267: the application list.  The fields
   formatted_time and percentage of an entry, which are computed from its
   seconds, and the HTML text are left out. *)

\* app_stats after the first k rows of rs
StatsAfter(rs, k) == ScanRows(InitLocals, SubSeq(rs, 1, k), 1).app_stats

\* line 157-158: the row of rs at which each application was inserted in
\* app_stats
AppInserted(rs) ==
    [a \in DOMAIN StatsAfter(rs, Len(rs)) |->
        CHOOSE k \in 1..Len(rs) :
            /\ a \in DOMAIN StatsAfter(rs, k)
            /\ a \notin DOMAIN StatsAfter(rs, k - 1)]

HasTitle(rs, k, a, t) ==
    /\ a \in DOMAIN StatsAfter(rs, k)
    /\ t \in DOMAIN StatsAfter(rs, k)[a].windows

\* line 164-165: the row of rs at which each title was inserted in the
\* windows of the application a
TitleInserted(rs, a) ==
    [t \in DOMAIN StatsAfter(rs, Len(rs))[a].windows |->
        CHOOSE k \in 1..Len(rs) : HasTitle(rs, k, a, t) /\ ~HasTitle(rs, k - 1, a, t)]

\* d.items(): the pairs <<key, value>> of a dict in the order of insertion;
\* inserted[key] is the row that inserted the key
RECURSIVE ItemsFrom(_, _, _)
ItemsFrom(d, inserted, keys) ==
    IF keys = {} THEN <<>>
    ELSE LET k == CHOOSE x \in keys : \A y \in keys : inserted[x] <= inserted[y]
         IN  <<<<k, d[k]>>>> \o ItemsFrom(d, inserted, keys \ {k})

Items(d, inserted) == ItemsFrom(d, inserted, DOMAIN d)

\* x put in a list that is in descending order of key, behind the items with
\* an equal key
RECURSIVE InsertReverse(_, _, _)
InsertReverse(sorted, x, key) ==
    IF sorted = <<>> THEN <<x>>
    ELSE IF key[Head(sorted)] >= key[x]
    THEN <<Head(sorted)>> \o InsertReverse(Tail(sorted), x, key)
    ELSE <<x>> \o sorted

RECURSIVE SortedReverse(_, _)
\* sorted(items, key=..., reverse=True): descending order of key, items with
\* an equal key in the order they had
SortedReverse(items, key) ==
    IF items = <<>> THEN <<>>
    ELSE InsertReverse(SortedReverse(SubSeq(items, 1, Len(items) - 1), key),
                       items[Len(items)], key)

Range(items) == {items[i] : i \in 1..Len(items)}

\* lines 252-260: the windows of one application
WindowEntries(windows, inserted) ==
    LET items == Items(windows, inserted)
        ordered == SortedReverse(items, [x \in Range(items) |-> x[2]])
    IN  [i \in 1..Len(ordered) |->
            [title |-> ordered[i][1], seconds |-> ordered[i][2]]]

\* lines 244-267: the loop over sorted_apps
RECURSIVE AppEntries(_, _)
AppEntries(sorted_apps, rs) ==
    IF sorted_apps = <<>> THEN <<>>
    ELSE LET app_name == Head(sorted_apps)[1]
             app_data == Head(sorted_apps)[2]
             seconds == app_data.total
         IN  (IF seconds > 0
              THEN <<[name |-> app_name,
                      seconds |-> seconds,
                      windows |-> WindowEntries(app_data.windows,
                                                TitleInserted(rs, app_name))]>>
              ELSE <<>>)
             \o AppEntries(Tail(sorted_apps), rs)

\* AppStatsList that takes the applications in the order of the dict
AppStatsListUnsorted(report_data, rs) ==
    IF "app_stats" \notin DOMAIN report_data THEN <<>>
    ELSE IF DOMAIN report_data.app_stats = {} THEN <<>>
    ELSE AppEntries(Items(report_data.app_stats, AppInserted(rs)), rs)

\* lines 238-267; rs are the rows that report_data was made from
AppStatsList(report_data, rs) ==
    IF "app_stats" \notin DOMAIN report_data THEN <<>>
    ELSE IF DOMAIN report_data.app_stats = {} THEN <<>>
    ELSE LET items == Items(report_data.app_stats, AppInserted(rs))
             sorted_apps == SortedReverse(items, [x \in Range(items) |-> x[2].total])
         IN  AppEntries(sorted_apps, rs)

\* main, line 804: the report of parse_log is handed to generate_html_report
GenerateHtmlReport ==
    /\ pc = "done"
    /\ pc' = "html"
    /\ app_stats_list' = AppStatsList(report, rows)
    /\ UNCHANGED <<log_exists, rows, periods, first_activity, last_activity,
                   total_work_seconds, app_stats, current_session_start,
                   in_work_session, session_started, today, now, report, previous>>

\* Logs whose applications and windows come in every order of their seconds,
\* with equal seconds too
AssemblyRows ==
    {Marker("SESSION_START", "09:00:00"), Marker("BREAK_START", "10:00:00"),
     Marker("SESSION_END", "17:00:00"), Total("17:00:00", "24000"),
     Marker("SESSION_START", "9 am"),
     Sample("09:00:00", "editor.exe", "600", "doc"),
     Sample("09:00:00", "editor.exe", "1800", "mail"),
     Sample("10:00:00", "browser.exe", "1800", "mail"),
     Sample("10:00:00", "browser.exe", "600", "")}

NextAssembly == NextOver(AssemblyRows, MaxRows) \/ GenerateHtmlReport

SpecAssembly == Init /\ [][NextAssembly]_vars

----------------------------------------------------------------------------
(* What a log says, read off the rows alone *)

ProcessOf(row) == Strip(row.process)

IsMarker(row) == ProcessOf(row) \in {"SESSION_START", "BREAK_START", "SESSION_END"}

HasTime(row) == Strip(row.start) \in DOMAIN TimeTable

TimeOf(row) == TimeTable[Strip(row.start)] * TicksPerSec

\* the SESSION_START rows with a parseable time
Starts(rs) ==
    {i \in 1..Len(rs) : ProcessOf(rs[i]) = "SESSION_START" /\ HasTime(rs[i])}

\* the rows from the first such SESSION_START on
Started(rs) == {i \in 1..Len(rs) : \E j \in Starts(rs) : j <= i}

\* the marker rows the scan acts on
MarkerRows(rs) == {i \in Started(rs) : IsMarker(rs[i]) /\ HasTime(rs[i])}

MarkersInOrder(rs) ==
    \A i, j \in MarkerRows(rs) : i < j => TimeOf(rs[i]) <= TimeOf(rs[j])

SortedDisjoint(ps) ==
    \A i \in 1..(Len(ps) - 1) :
        /\ ps[i][1] <= ps[i + 1][1]
        /\ ps[i][2] <= ps[i + 1][1]

----------------------------------------------------------------------------
(* C1 *)

\* C1 as stated: whatever the rows and the date, the periods of the report
\* are sorted by start and no period ends after the next one starts.
C1_AnyOrder ==
    pc = "done" => SortedDisjoint(report.periods)

\* C1, amended: when the SESSION_START, BREAK_START and SESSION_END rows from
\* the first SESSION_START on carry non-decreasing timestamps in file order,
\* the periods of the report are sorted by start and no period ends after the
\* next one starts.
C1_SortedDisjoint ==
    (pc = "done" /\ MarkersInOrder(rows)) => SortedDisjoint(report.periods)

\* three periods from markers in order, the last one closed at the end of file
C1_Witness ==
    /\ pc = "done"
    /\ MarkersInOrder(rows)
    /\ Len(report.periods) = 3
    /\ report.periods[1][1] < report.periods[2][1]
    /\ current_session_start # None

----------------------------------------------------------------------------
(* C2, C3, C10 *)

IsTotalRow(row) == IsTotalMarker(ProcessOf(row))

\* the sum over the Work periods of (end - start) in whole seconds
RECURSIVE WorkSum(_)
WorkSum(ps) ==
    IF ps = <<>> THEN 0
    ELSE LET p == ps[Len(ps)]
         IN  WorkSum(SubSeq(ps, 1, Len(ps) - 1))
             + (IF p[3] = "work" THEN IntTrunc(p[2] - p[1], TicksPerSec) ELSE 0)

\* C2: when the log holds no TotalMarker row, total_work_seconds is the sum of
\* the durations of the Work periods in whole seconds, 0 when there is no
\* period, and the report has exists = true and no error.
C2_SumOfWork ==
    (pc = "done" /\ log_exists /\ \A i \in 1..Len(rows) : ~IsTotalRow(rows[i]))
        => /\ report.total_work_seconds = WorkSum(report.periods)
           /\ report.periods = <<>> => report.total_work_seconds = 0
           /\ report.exists
           /\ report.error = ""

\* two work periods and a break, the last work period closed at a wall clock
\* that is not a whole second
C2_Witness ==
    /\ pc = "done"
    /\ \A i \in 1..Len(rows) : ~IsTotalRow(rows[i])
    /\ today
    /\ Len(report.periods) = 3
    /\ report.periods[3][3] = "work"
    /\ report.total_work_seconds = 3600 + 24300

\* the TotalMarker rows of a log
TotalRowsOf(rs) == {i \in 1..Len(rs) : IsTotalRow(rs[i])}

\* the TotalMarker rows with a parseable start time after the first
\* SESSION_START
AcceptedTotals(rs) == {i \in Started(rs) : IsTotalRow(rs[i]) /\ HasTime(rs[i])}

Last(S) == CHOOSE i \in S : \A j \in S : j <= i

\* what C3 says of the report when the TotalMarker row that counts is row
OverrideOrSum(row) ==
    /\ (row.end \in DOMAIN IntTable /\ IntTable[row.end] # 0)
            => report.total_work_seconds = IntTable[row.end]
    /\ row.end = "0" => report.total_work_seconds = WorkSum(report.periods)

\* C3 as stated: the value of the most recent TotalMarker row of the log, if
\* a non-zero integer, is total_work_seconds; if zero, total_work_seconds is
\* the sum of the Work periods.
C3_AnyTotalRow ==
    (pc = "done" /\ TotalRowsOf(rows) # {})
        => OverrideOrSum(rows[Last(TotalRowsOf(rows))])

\* C3, amended: the same of the most recent TotalMarker row that has a
\* parseable start time and comes after the first SESSION_START.
C3_AcceptedTotalRow ==
    (pc = "done" /\ AcceptedTotals(rows) # {})
        => OverrideOrSum(rows[Last(AcceptedTotals(rows))])

\* a later non-zero total replaces an earlier one and differs from the sum
C3_Witness ==
    /\ pc = "done"
    /\ Cardinality(AcceptedTotals(rows)) = 2
    /\ rows[Last(AcceptedTotals(rows))].end = "24000"
    /\ \E i \in AcceptedTotals(rows) : rows[i].end = "-5"
    /\ WorkSum(report.periods) = 3600
    /\ report.total_work_seconds = 24000

\* C10: total_break_seconds is max(0, (last_activity - first_activity) -
\* total_work_seconds) in whole seconds when the report has both a start and
\* an end time, 0 otherwise; it is never negative.
C10_BreakSeconds ==
    pc = "done"
        => /\ report.total_break_seconds >= 0
           /\ report.total_break_seconds =
                IF report.start_time # None /\ report.end_time # None
                THEN LET d == (report.end_time - report.start_time)
                                - report.total_work_seconds * TicksPerSec
                     IN  IF d <= 0 THEN 0 ELSE d \div TicksPerSec
                ELSE 0

\* a TotalMarker override larger than the span of the day
C10_Witness ==
    /\ pc = "done"
    /\ report.exists
    /\ report.start_time # None
    /\ report.end_time > report.start_time
    /\ report.total_work_seconds * TicksPerSec > report.end_time - report.start_time
    /\ report.total_break_seconds = 0

----------------------------------------------------------------------------
(* C4, C5, C7, C8 *)

NotStart(row) == ProcessOf(row) # "SESSION_START"

\* C4: dropping from the log any number of leading rows none of which is a
\* SESSION_START leaves the report as it is, for the same date and clock.
C4_LeadingRowsDiscarded ==
    (pc = "done" /\ log_exists)
        => \A k \in 1..Len(rows) :
                (\A i \in 1..k : NotStart(rows[i]))
                    => report = ParseLog(SubSeq(rows, k + 1, Len(rows)), today, now)

\* a leftover sample and a leftover summary row before the first
\* SESSION_START of a day with a work period
C4_Witness ==
    /\ pc = "done"
    /\ Len(rows) = 4
    /\ rows[1] = Sample("23:58:00", "editor.exe", "1800", "doc")
    /\ rows[2] = Total("10:00:00", "24000")
    /\ rows[3] = Marker("SESSION_START", "00:05:00")
    /\ Len(report.periods) = 2
    /\ report.total_work_seconds = 35700
    /\ report.app_stats = EmptyDict

First(S) == CHOOSE i \in S : \A j \in S : i <= j

\* C5: start_time is the timestamp of the first SESSION_START row with a
\* parseable time, whatever comes before it, and None when there is no such
\* row.
C5_StartTime ==
    pc = "done"
        => report.start_time =
                IF Starts(rows) # {} THEN TimeOf(rows[First(Starts(rows))])
                ELSE None

\* a row at 23:58:00, then SESSION_START at 00:05:00 and a later SESSION_START
C5_Witness ==
    /\ pc = "done"
    /\ Len(rows) >= 3
    /\ rows[1].start = "23:58:00"
    /\ rows[2] = Marker("SESSION_START", "00:05:00")
    /\ rows[3] = Marker("SESSION_START", "10:00:00")
    /\ report.start_time = 300 * TicksPerSec

\* C7: without a log file the report has exists = false, an error text, no
\* period, zero totals and no start or end time; with a log file it has
\* exists = true and no error.
C7_MissingFile ==
    pc = "done"
        => IF ~log_exists
           THEN /\ ~report.exists
                /\ report.error # ""
                /\ report.periods = <<>>
                /\ report.total_work_seconds = 0
                /\ report.total_break_seconds = 0
                /\ report.start_time = None
                /\ report.end_time = None
           ELSE /\ report.exists
                /\ report.error = ""

\* the report of a date without a log file
C7_Witness ==
    /\ pc = "done"
    /\ ~log_exists
    /\ ~report.exists

\* the rows that stamp last_activity: markers and samples with an integer
\* duration, with a parseable time, from the first SESSION_START on
Accepted(rs) ==
    {i \in Started(rs) :
        /\ HasTime(rs[i])
        /\ ~IsTotalRow(rs[i])
        /\ IsMarker(rs[i]) \/ rs[i].duration_sec \in DOMAIN IntTable \cup {""}}

\* C8: at the end of the rows an open interval becomes exactly one more
\* period, from the start of the interval to the wall clock when the date is
\* today and to the timestamp of the last accepted event otherwise, Work if
\* the scan ends Working and Break if it ends OnBreak; without an open
\* interval no period is added.
C8_Finalization ==
    [][(pc = "scan" /\ pc' = "done")
        => report'.periods =
            IF current_session_start # None
            THEN Append(periods,
                    <<current_session_start,
                      IF today' THEN now' ELSE TimeOf(rows[Last(Accepted(rows))]),
                      IF in_work_session THEN "work" ELSE "break">>)
            ELSE periods]_vars

\* a past date: the break opened at 10:00 is closed at the sample of 23:58
C8_Witness ==
    /\ pc = "done"
    /\ ~today
    /\ current_session_start = Combine("10:00:00")
    /\ ~in_work_session
    /\ Len(report.periods) = 2
    /\ report.periods[2] = <<Combine("10:00:00"), 86280 * TicksPerSec, "break">>

----------------------------------------------------------------------------
(* C6, C9 *)

\* C6: the end-to-end scenario yields the three periods 09:00-10:00 Work,
\* 10:00-10:15 Break, 10:15-17:00 Work, total_work_seconds = 24000 and the
\* application editor with 1800 seconds, all under the window doc.
C6_EndToEnd ==
    (pc = "done" /\ rows = EndToEndRows)
        => /\ report.periods =
                <<<<32400 * TicksPerSec, 36000 * TicksPerSec, "work">>,
                  <<36000 * TicksPerSec, 36900 * TicksPerSec, "break">>,
                  <<36900 * TicksPerSec, 61200 * TicksPerSec, "work">>>>
           /\ report.total_work_seconds = 24000
           /\ DOMAIN report.app_stats = {"editor"}
           /\ report.app_stats["editor"].total = 1800
           /\ DOMAIN report.app_stats["editor"].windows = {"doc"}
           /\ report.app_stats["editor"].windows["doc"] = 1800

\* the scenario, parsed to the end
C6_Witness ==
    /\ pc = "done"
    /\ rows = EndToEndRows
    /\ report.exists

IsActivityRow(row) == ~IsMarker(row) /\ ~IsTotalRow(row)

NotPositive(row) ==
    row.duration_sec \in DOMAIN IntTable /\ IntTable[row.duration_sec] <= 0

\* C9: an Activity row whose duration_sec is not greater than 0 leaves the
\* application usage as it is.
C9_ZeroDuration ==
    [][(pc = "scan" /\ Len(rows') = Len(rows) + 1
            /\ IsActivityRow(rows'[Len(rows')]) /\ NotPositive(rows'[Len(rows')]))
        => app_stats' = app_stats]_vars

\* a sample of duration 0 of an application not seen before, read after the
\* session started and after a counted sample of another application
C9_Witness ==
    /\ pc = "scan"
    /\ Len(rows) = 3
    /\ rows[1] = Marker("SESSION_START", "09:00:00")
    /\ rows[2] = Sample("10:00:00", "browser.exe", "600", "mail")
    /\ rows[3] = Sample("10:00:00", "editor.exe", "0", "doc")
    /\ DOMAIN app_stats = {"browser"}
    /\ last_activity = Combine("10:00:00")

----------------------------------------------------------------------------
(* C11 *)

\* C11: for a log dated today with a first and a last activity, the
\* last_activity used for the break total and returned as end_time is the
\* wall clock, also when the last accepted event is later than the wall clock.
C11_ClampedToNow ==
    (pc = "done" /\ today /\ report.start_time # None /\ report.end_time # None)
        => report.end_time = now

----------------------------------------------------------------------------
(* C13 - C16: the transitions of the session state machine *)

Idle == current_session_start = None

Working == current_session_start # None /\ in_work_session

OnBreak == current_session_start # None /\ ~in_work_session

\* the loop body runs on one more row
JustRead == pc = "scan" /\ Len(rows') = Len(rows) + 1

NewRow == rows'[Len(rows')]

\* the new row is a marker of this kind with a parseable time
ReadMarker(process) ==
    JustRead /\ ProcessOf(NewRow) = process /\ HasTime(NewRow)

\* C13: a SESSION_START row with a parseable time T sets session_started and
\* leaves the machine Working from T; it appends the period (open start, T,
\* Work if Working, Break if OnBreak) when an interval was open and nothing
\* when Idle.
C13_SessionStart ==
    [][ReadMarker("SESSION_START")
        => /\ session_started'
           /\ Working'
           /\ current_session_start' = TimeOf(NewRow)
           /\ periods' =
                IF Idle THEN periods
                ELSE Append(periods,
                        <<current_session_start, TimeOf(NewRow),
                          IF Working THEN "work" ELSE "break">>)]_vars

\* SESSION_START at 10:00 has closed the break opened at 00:05
C13_Witness ==
    /\ pc = "scan"
    /\ Len(rows) = 3
    /\ rows[2] = Marker("BREAK_START", "00:05:00")
    /\ rows[3] = Marker("SESSION_START", "10:00:00")
    /\ Len(periods) = 2
    /\ periods[2] = <<Combine("00:05:00"), Combine("10:00:00"), "break">>
    /\ Working

\* C14: a BREAK_START row with time T read while Working appends the period
\* (open Work start, T, Work), opens a Break interval at T and leaves the
\* machine OnBreak.
C14_WorkingBreakStart ==
    [][(ReadMarker("BREAK_START") /\ Working)
        => /\ periods' = Append(periods,
                            <<current_session_start, TimeOf(NewRow), "work">>)
           /\ current_session_start' = TimeOf(NewRow)
           /\ OnBreak']_vars

\* BREAK_START at 10:00 has closed the work started at 00:05
C14_Witness ==
    /\ pc = "scan"
    /\ rows = <<Marker("SESSION_START", "00:05:00"), Marker("BREAK_START", "10:00:00")>>
    /\ periods = <<<<Combine("00:05:00"), Combine("10:00:00"), "work">>>>
    /\ OnBreak
    /\ current_session_start = Combine("10:00:00")

\* C15: a BREAK_START row with time T read, after the session started, while
\* Idle or OnBreak appends no period, makes T the start of the open Break
\* interval and leaves the machine OnBreak.
C15_IdleOrBreakBreakStart ==
    [][(ReadMarker("BREAK_START") /\ session_started /\ ~Working)
        => /\ periods' = periods
           /\ current_session_start' = TimeOf(NewRow)
           /\ OnBreak']_vars

\* BREAK_START at 10:00 has replaced the break opened at 00:05
C15_Witness ==
    /\ pc = "scan"
    /\ Len(rows) = 3
    /\ rows[2] = Marker("BREAK_START", "00:05:00")
    /\ rows[3] = Marker("BREAK_START", "10:00:00")
    /\ Len(periods) = 1
    /\ OnBreak
    /\ current_session_start = Combine("10:00:00")

\* C16: a SESSION_END row with time T read after the session started leaves
\* the machine Idle; it appends the period (open Work start, T, Work) when
\* Working and nothing when Idle or OnBreak.
C16_SessionEnd ==
    [][(ReadMarker("SESSION_END") /\ session_started)
        => /\ Idle'
           /\ ~in_work_session'
           /\ periods' =
                IF Working
                THEN Append(periods,
                        <<current_session_start, TimeOf(NewRow), "work">>)
                ELSE periods]_vars

\* SESSION_END at 10:00 has dropped the break opened at 00:05
C16_Witness ==
    /\ pc = "scan"
    /\ rows = <<Marker("SESSION_START", "00:05:00"), Marker("BREAK_START", "00:05:00"),
                Marker("SESSION_END", "10:00:00")>>
    /\ periods = <<<<Combine("00:05:00"), Combine("00:05:00"), "work">>>>
    /\ Idle

----------------------------------------------------------------------------
(* C17 - C19: rows that leave the state machine alone *)

\* a row without a usable start, or a sample without a usable duration
Malformed(row) ==
    \/ ~HasTime(row)
    \/ IsActivityRow(row) /\ row.duration_sec \notin DOMAIN IntTable \cup {""}

\* C17: a row of any kind whose start is empty or unparseable, and an
\* Activity row whose duration_sec is unparseable, change none of
\* session_started, the open interval, the periods, the first and last
\* activity, the total override and the application usage, and the scan goes
\* on.
C17_MalformedSkipped ==
    [][(JustRead /\ Malformed(NewRow))
        => /\ pc' = "scan"
           /\ UNCHANGED <<session_started, current_session_start, in_work_session,
                          periods, first_activity, last_activity,
                          total_work_seconds, app_stats>>]_vars

\* after a SESSION_START without a time, a real one, and a sample at 10:00
\* without a duration: the last activity is still the SESSION_START of 09:00
C17_Witness ==
    /\ pc = "scan"
    /\ rows = <<Marker("SESSION_START", "9 am"), Marker("SESSION_START", "09:00:00"),
                Sample("10:00:00", "browser.exe", "x", "mail")>>
    /\ session_started
    /\ first_activity = Combine("09:00:00")
    /\ last_activity = Combine("09:00:00")
    /\ app_stats = EmptyDict

\* C18: an Activity row of any duration leaves the state, the start of the
\* open interval, session_started, the periods and the total override as
\* they were.
C18_ActivityNoTransition ==
    [][(JustRead /\ IsActivityRow(NewRow))
        => UNCHANGED <<session_started, current_session_start, in_work_session,
                       periods, total_work_seconds>>]_vars

\* a counted sample read during a break
C18_Witness ==
    /\ pc = "scan"
    /\ rows = <<Marker("SESSION_START", "09:00:00"), Marker("BREAK_START", "10:00:00"),
                Sample("10:00:00", "browser.exe", "600", "mail")>>
    /\ OnBreak
    /\ DOMAIN app_stats = {"browser"}

\* what every TotalMarker row leaves alone
TotalRowFrame ==
    UNCHANGED <<session_started, current_session_start, in_work_session,
                periods, first_activity, last_activity, app_stats>>

\* C19 as stated: a TotalMarker row changes nothing but the override total,
\* and one whose value is not an integer leaves the override total unchanged
\* too.
C19_NotAnInteger ==
    [][(JustRead /\ IsTotalRow(NewRow))
        => /\ TotalRowFrame
           /\ NewRow.end \notin DOMAIN IntTable
                => total_work_seconds' = total_work_seconds]_vars

\* C19, amended: a TotalMarker row changes nothing but the override total;
\* one whose value is a text that is not an integer leaves the override total
\* unchanged too, and one whose value is empty, if the row is accepted, sets
\* the override total to 0.
C19_TotalRowFrame ==
    [][(JustRead /\ IsTotalRow(NewRow))
        => /\ TotalRowFrame
           /\ NewRow.end \notin DOMAIN IntTable \cup {""}
                => total_work_seconds' = total_work_seconds
           /\ (NewRow.end = "" /\ session_started /\ HasTime(NewRow))
                => total_work_seconds' = 0]_vars

\* a summary row with the value x, read after one with the value 24000
C19_Witness ==
    /\ pc = "scan"
    /\ rows = <<Marker("SESSION_START", "09:00:00"), Total("17:00:00", "24000"),
                Total("17:00:00", "x")>>
    /\ total_work_seconds = 24000
    /\ last_activity = Combine("09:00:00")
    /\ Working

----------------------------------------------------------------------------
(* C20 *)

\* the Activity rows that count: after the first SESSION_START, with a
\* parseable time and a duration greater than 0
Counted(rs) ==
    {i \in Started(rs) :
        /\ HasTime(rs[i])
        /\ IsActivityRow(rs[i])
        /\ rs[i].duration_sec \in DOMAIN IntTable
        /\ IntTable[rs[i].duration_sec] > 0}

\* the process name without a '.exe' suffix
WithoutExeSuffix(process) ==
    CASE process = "editor.exe" -> "editor"
      [] process = "browser.exe" -> "browser"
      [] OTHER -> process

AppOf(row) == WithoutExeSuffix(ProcessOf(row))

\* the sum of duration_sec over the rows of rs with index in S
RECURSIVE DurationSum(_, _)
DurationSum(rs, S) ==
    IF S = {} THEN 0
    ELSE LET i == CHOOSE j \in S : TRUE
         IN  IntTable[rs[i].duration_sec] + DurationSum(rs, S \ {i})

\* C20: at the end of the scan the applications are those of the counted
\* rows, named without the '.exe' suffix; the total of each is the sum of the
\* durations of its counted rows, and its breakdown has, for every non-empty
\* title of these rows, the sum of the durations of the rows with that title.
C20_UsageAccounting ==
    (pc = "done" /\ log_exists)
        => /\ DOMAIN report.app_stats = {AppOf(rows[i]) : i \in Counted(rows)}
           /\ \A i \in Counted(rows) :
                LET mine == {j \in Counted(rows) : AppOf(rows[j]) = AppOf(rows[i])}
                    titled == {j \in mine : rows[j].title # ""}
                    app == report.app_stats[AppOf(rows[i])]
                IN  /\ app.total = DurationSum(rows, mine)
                    /\ DOMAIN app.windows = {rows[j].title : j \in titled}
                    /\ \A j \in titled :
                        app.windows[rows[j].title] =
                            DurationSum(rows, {k \in titled : rows[k].title = rows[j].title})

----------------------------------------------------------------------------
(* C12 *)

\* C12: two calls of parse_log on the same object with the same rows, the
\* same date and the same wall clock return the same report.
C12_Deterministic ==
    (pc = "done" /\ previous # <<>>
        /\ previous[1].log_exists = log_exists
        /\ previous[1].rows = rows
        /\ previous[1].today = today
        /\ previous[1].now = now)
        => report = previous[1].report

\* the same log of today, with a counted sample and an open work interval,
\* parsed twice at the same instant
C12_Witness ==
    /\ pc = "done"
    /\ previous # <<>>
    /\ previous[1].rows = rows
    /\ previous[1].today = today
    /\ previous[1].now = now
    /\ today
    /\ rows = <<Marker("SESSION_START", "09:00:00"),
                Sample("09:00:00", "editor.exe", "1800", "doc")>>
    /\ report.app_stats["editor"].total = 1800
    /\ Len(report.periods) = 1
    /\ report = previous[1].report

----------------------------------------------------------------------------
(* C21, C23 - C26 *)

IsPrefix(ps, qs) == Len(ps) <= Len(qs) /\ SubSeq(qs, 1, Len(ps)) = ps

\* C21: during the scan and at its end the periods already appended stay as
\* they are, in their order, and a row appends at most one period.
C21_AppendOnly ==
    [][pc = "scan"
        => /\ IsPrefix(periods, periods')
           /\ Len(periods') <= Len(periods) + 1]_vars

\* a fourth row read after two periods were appended, appending none
C21_Witness ==
    /\ pc = "scan"
    /\ Len(rows) = 4
    /\ rows[4] = Marker("SESSION_END", "00:05:00")
    /\ Len(periods) = 2
    /\ periods[2][3] = "work"
    /\ Idle

\* the rows that stamp last_activity have non-decreasing timestamps
AcceptedInOrder(rs) ==
    \A i, j \in Accepted(rs) : i < j => TimeOf(rs[i]) <= TimeOf(rs[j])

\* C23: for a past date and accepted rows with non-decreasing timestamps,
\* every period has start <= end, the periods are sorted by start and do not
\* overlap, and every period lies within start_time .. end_time.
C23_OrderedLog ==
    (pc = "done" /\ log_exists /\ ~today /\ AcceptedInOrder(rows))
        => /\ SortedDisjoint(report.periods)
           /\ \A i \in 1..Len(report.periods) :
                /\ report.periods[i][1] <= report.periods[i][2]
                /\ report.start_time # None
                /\ report.start_time <= report.periods[i][1]
                /\ report.periods[i][2] <= report.end_time

\* a past day in order: work, an empty break, and work closed at the sample
\* of 23:58
C23_Witness ==
    /\ pc = "done"
    /\ ~today
    /\ AcceptedInOrder(rows)
    /\ Len(report.periods) = 3
    /\ report.periods[1][1] < report.periods[1][2]
    /\ report.periods[3][2] = 86280 * TicksPerSec
    /\ report.end_time = 86280 * TicksPerSec

FlagsValid ==
    /\ in_work_session => current_session_start # None
    /\ current_session_start # None => session_started

\* C24: in_work_session implies an open interval, an open interval implies
\* session_started, and session_started, once set, stays set.
C24_Flags ==
    [](pc \in {"scan", "done"} => FlagsValid)
        /\ [][(pc = "scan" /\ session_started) => session_started']_vars

\* the machine back in Idle after work and a break
C24_Witness ==
    /\ pc = "scan"
    /\ Len(rows) = 3
    /\ rows[3] = Marker("SESSION_END", "10:00:00")
    /\ session_started
    /\ Idle
    /\ ~in_work_session
    /\ Len(periods) = 1

\* C25: an open interval always comes with a last activity, so the open
\* interval of a past date is closed at the last accepted event and never at
\* 23:59:59.
C25_NoEndOfDayFallback ==
    /\ (pc = "scan" /\ current_session_start # None) => last_activity # None
    /\ (pc = "done" /\ log_exists /\ ~today /\ current_session_start # None)
            => /\ Accepted(rows) # {}
               /\ report.periods[Len(report.periods)][2] # EndOfDay
               /\ report.periods[Len(report.periods)][2]
                    = TimeOf(rows[Last(Accepted(rows))])

\* a past date whose only row is SESSION_START at 10:00: the work interval is
\* closed at 10:00
C25_Witness ==
    /\ pc = "done"
    /\ ~today
    /\ rows = <<Marker("SESSION_START", "10:00:00")>>
    /\ report.periods = <<<<Combine("10:00:00"), Combine("10:00:00"), "work">>>>

\* the sum over the Break periods of (end - start) in whole seconds
RECURSIVE BreakSum(_)
BreakSum(ps) ==
    IF ps = <<>> THEN 0
    ELSE LET p == ps[Len(ps)]
         IN  BreakSum(SubSeq(ps, 1, Len(ps) - 1))
             + (IF p[3] = "break" THEN IntTrunc(p[2] - p[1], TicksPerSec) ELSE 0)

\* C26: for a past date, accepted rows with non-decreasing timestamps and no
\* TotalMarker row, total_work_seconds + total_break_seconds is the whole
\* seconds from start_time to end_time, and total_break_seconds is at least
\* the sum of the Break periods.
C26_TimeConservation ==
    (pc = "done" /\ log_exists /\ ~today /\ AcceptedInOrder(rows)
        /\ (\A i \in 1..Len(rows) : ~IsTotalRow(rows[i]))
        /\ report.start_time # None)
        => /\ report.total_work_seconds + report.total_break_seconds
                = (report.end_time - report.start_time) \div TicksPerSec
           /\ report.total_break_seconds >= BreakSum(report.periods)

\* work from 00:05 to 10:00, then nothing until the sample of 23:58: the
\* idle time is break time that is in no Break period
C26_Witness ==
    /\ pc = "done"
    /\ ~today
    /\ rows = <<Marker("SESSION_START", "00:05:00"), Marker("SESSION_END", "10:00:00"),
                Sample("23:58:00", "editor.exe", "1800", "doc")>>
    /\ report.total_work_seconds = 35700
    /\ report.total_break_seconds = 50280
    /\ BreakSum(report.periods) = 0

----------------------------------------------------------------------------
(* C27 *)

\* the sum of the seconds of a window breakdown
RECURSIVE WindowSum(_)
WindowSum(windows) ==
    IF DOMAIN windows = {} THEN 0
    ELSE LET t == CHOOSE u \in DOMAIN windows : TRUE
         IN  windows[t] + WindowSum([u \in DOMAIN windows \ {t} |-> windows[u]])

\* the counted rows of rs that the scan books under the application a
CountedFor(rs, a) ==
    {i \in Counted(rs) : RemoveExe(Strip(ProcessOf(rs[i]))) = a}

\* C27: at every point of the scan every application has a total above 0,
\* every window of it has seconds above 0, and the seconds of its windows sum
\* to at most its total, to exactly its total if and only if none of its
\* counted rows had an empty title.
C27_PositiveUsage ==
    \A a \in DOMAIN app_stats :
        LET app == app_stats[a]
        IN  /\ app.total > 0
            /\ \A t \in DOMAIN app.windows : app.windows[t] > 0
            /\ WindowSum(app.windows) <= app.total
            /\ WindowSum(app.windows) = app.total
                <=> \A i \in CountedFor(rows, a) : Strip(rows[i].title) # ""

\* in the middle of the scan: editor with 1800 s under doc and 600 s under no
\* title
C27_Witness ==
    /\ pc = "scan"
    /\ Len(rows) = 3
    /\ "editor" \in DOMAIN app_stats
    /\ app_stats["editor"].total = 2400
    /\ WindowSum(app_stats["editor"].windows) = 1800
    /\ \E i \in CountedFor(rows, "editor") : rows[i].title = ""

----------------------------------------------------------------------------
(* C22 *)

\* C22: the application list is in non-increasing order of seconds and so
\* are the windows of each application; its names are the applications of the
\* report, each once and with the total of the report.
C22_AssemblyOrdering ==
    (pc = "html" /\ log_exists)
        => /\ \A i, j \in 1..Len(app_stats_list) :
                i < j => app_stats_list[i].seconds >= app_stats_list[j].seconds
           /\ \A i \in 1..Len(app_stats_list) :
                LET windows == app_stats_list[i].windows
                IN  \A j, k \in 1..Len(windows) :
                        j < k => windows[j].seconds >= windows[k].seconds
           /\ {app_stats_list[i].name : i \in 1..Len(app_stats_list)}
                = DOMAIN report.app_stats
           /\ Len(app_stats_list) = Cardinality(DOMAIN report.app_stats)
           /\ \A i \in 1..Len(app_stats_list) :
                /\ app_stats_list[i].seconds = report.app_stats[app_stats_list[i].name].total
                /\ app_stats_list[i].seconds
                    = DurationSum(rows, CountedFor(rows, app_stats_list[i].name))

\* editor was inserted first with 600 s and browser second with 1800 s, and
\* editor's window doc (600 s) before mail (1800 s): both orders are turned
C22_Witness ==
    /\ pc = "html"
    /\ rows = <<Marker("SESSION_START", "09:00:00"),
                Sample("09:00:00", "editor.exe", "600", "doc"),
                Sample("10:00:00", "browser.exe", "1800", "mail"),
                Sample("09:00:00", "editor.exe", "1800", "mail")>>
    /\ Len(app_stats_list) = 2
    /\ app_stats_list[1].name = "editor"
    /\ app_stats_list[1].seconds = 2400
    /\ app_stats_list[1].windows
        = <<[title |-> "mail", seconds |-> 1800], [title |-> "doc", seconds |-> 600]>>
    /\ app_stats_list[2].name = "browser"

====
